---- MODULE Spec2Model ----
(***************************************************************************)
(* State-machine model of server.js: the GET /slice handler, the shared    *)
(* in-memory imageCache and the setInterval cache cleanup.                 *)
(*                                                                         *)
(* A request is one run of the async handler.  The handler is cut at its   *)
(* awaits: everything between two awaits is one atomic step of the event   *)
(* loop, and other requests and the cleanup timer run in between.          *)
(***************************************************************************)
EXTENDS Integers, Sequences, FiniteSets, TLC

\* ------------------------------------------------------------------ bounds

\* Number of requests the clients send in one behaviour.
NumReqs == 2

\* Time horizon, in cleanup intervals.
MaxTicks == 6

\* Number of times in one behaviour the clock is read LATE ms further on.
MaxLate == 1

\* Largest image height and slice height of the partition specification.
MaxImgHeight == 12
MaxSliceHeight == 5

\* ------------------------------------------------------- program constants

SLICE_HEIGHT == 1500

CACHE_TTL == 5 * 60 * 1000

SWEEP_INTERVAL == 60 * 1000

\* Milliseconds by which the wall clock moves on in one step: the time a
\* due cleanup callback waits for the event loop, or the time of day within
\* a cleanup interval at which a body arrives.
LATE == 50

\* ------------------------------------------------------------ environment

Reqs == 1..NumReqs

\* The source URLs clients ask for.
Keys == {"u1"}

\* req.query.url when the parameter is missing.
NoUrl == "<undefined>"

\* req.query.index when the parameter is missing; a present index is the
\* query string's text, a sequence of characters.
NoIndex == <<"<undefined>">>

IndexInputs ==
    { NoIndex, <<"0">>, <<"1">>, <<"2">>, <<"-", "1">>, <<"a">>,
      <<"\t", "1">>, <<"0", "x", "1">> }

\* The queries clients send.  Every request may ask for nothing (no URL)
\* or for the manifest; the last request to arrive may carry any index, and
\* an empty URL.
CommonQueries ==
    [url : Keys, index : {NoIndex}]
        \cup {[url |-> NoUrl, index |-> NoIndex]}

AllQueries ==
    [url : Keys, index : IndexInputs]
        \cup {[url |-> NoUrl, index |-> NoIndex], [url |-> "", index |-> <<"0">>]}

Queries(r) == IF r = NumReqs THEN AllQueries ELSE CommonQueries

\* The byte buffers the remote server can send.  Two decodable images of
\* different dimensions and one buffer the codec cannot decode.
Buffers == {"imgA", "imgB", "junk"}

Decodable(b) == b \in {"imgA", "imgB"}

ImgWidth(b) == IF b = "imgA" THEN 800 ELSE 720

ImgHeight(b) == IF b = "imgA" THEN 1500 ELSE 3200

\* buffer.length of each body.
BufLength(b) ==
    CASE b = "imgA" -> 40000 [] b = "imgB" -> 90000 [] b = "junk" -> 16

\* response.headers.get('content-length') of the response that carries
\* each body: right for imgA, short by one for imgB, absent (null) for junk.
NoHeader == <<>>

ExpectedSize(b) ==
    CASE b = "imgA" -> <<40000>> [] b = "imgB" -> <<90001>> [] b = "junk" -> NoHeader

\* ------------------------------------------------------------ JS numbers

\* A JS number the handler computes from the index: an integer or NaN.
Num(n) == [nan |-> FALSE, v |-> n]

NaN == [nan |-> TRUE, v |-> 0]

Digits == {"0", "1", "2", "3", "4", "5", "6", "7", "8", "9"}

\* The digits of radix 16 beyond the decimal ones, in both cases.
HexLetters == {"a", "b", "c", "d", "e", "f", "A", "B", "C", "D", "E", "F"}

DigitVal(c) ==
    CASE c = "0" -> 0 [] c = "1" -> 1 [] c = "2" -> 2 [] c = "3" -> 3
      [] c = "4" -> 4 [] c = "5" -> 5 [] c = "6" -> 6 [] c = "7" -> 7
      [] c = "8" -> 8 [] c = "9" -> 9
      [] c \in {"a", "A"} -> 10 [] c \in {"b", "B"} -> 11
      [] c \in {"c", "C"} -> 12 [] c \in {"d", "D"} -> 13
      [] c \in {"e", "E"} -> 14 [] c \in {"f", "F"} -> 15

\* The digits of radix 16.
HexDigits == Digits \cup HexLetters

\* The digits parseInt reads in a radix (10 or 16).
RadixDigits(radix) == IF radix = 16 THEN HexDigits ELSE Digits

\* StrWhiteSpaceChar: space, tab, LF, CR, FF, and, written by name, VT,
\* NBSP, the byte order mark, the other Unicode space separators, and the
\* line and paragraph separators.
WhiteSpace ==
    {" ", "\t", "\n", "\r", "\f", "<VT>", "<NBSP>", "<BOM>", "<USP>",
     "<LS>", "<PS>"}

RECURSIVE SkipSpace(_)
SkipSpace(s) ==
    IF s # <<>> /\ Head(s) \in WhiteSpace THEN SkipSpace(Tail(s)) ELSE s

\* The longest prefix of s made of digits of the radix.
RECURSIVE DigitPrefix(_, _)
DigitPrefix(s, radix) ==
    IF s # <<>> /\ Head(s) \in RadixDigits(radix)
    THEN <<Head(s)>> \o DigitPrefix(Tail(s), radix)
    ELSE <<>>

RECURSIVE DigitsValue(_, _, _)
DigitsValue(ds, radix, acc) ==
    IF ds = <<>> THEN acc
    ELSE DigitsValue(Tail(ds), radix, radix * acc + DigitVal(Head(ds)))

\* The text begins with 0x or 0X.
HexPrefix(s) == Len(s) >= 2 /\ s[1] = "0" /\ s[2] \in {"x", "X"}

\* The number the digits ds stand for, with its sign; NaN without a digit.
ParseDigits(ds, radix, sign) ==
    IF ds = <<>> THEN NaN ELSE Num(sign * DigitsValue(ds, radix, 0))

\* The text after the sign: radix 16 without the prefix when 0x or 0X
\* begins it, radix 10 otherwise; the longest run of digits of the radix.
ParseBody(body, sign) ==
    IF HexPrefix(body)
    THEN ParseDigits(DigitPrefix(Tail(Tail(body)), 16), 16, sign)
    ELSE ParseDigits(DigitPrefix(body, 10), 10, sign)

\* The text after the leading white space: an optional sign, then the body.
ParseSigned(s) ==
    IF s = <<>> THEN NaN
    ELSE IF Head(s) = "-" THEN ParseBody(Tail(s), -1)
    ELSE IF Head(s) = "+" THEN ParseBody(Tail(s), 1)
    ELSE ParseBody(s, 1)

\* parseInt(index), no radix given.
ParseInt(str) == ParseSigned(SkipSpace(str))

JsMul(a, b) == IF a.nan \/ b.nan THEN NaN ELSE Num(a.v * b.v)

JsSub(a, b) == IF a.nan \/ b.nan THEN NaN ELSE Num(a.v - b.v)

\* Math.min: NaN when either argument is NaN.
JsMin(a, b) ==
    IF a.nan \/ b.nan THEN NaN ELSE IF a.v <= b.v THEN a ELSE b

\* a >= b: false when either side is NaN.
JsGe(a, b) == IF a.nan \/ b.nan THEN FALSE ELSE a.v >= b.v

Min(a, b) == IF a <= b THEN a ELSE b

\* Math.floor in place of Math.ceil.
FloorDiv(a, b) == a \div b

\* Math.ceil(a / b) for positive integers.
CeilDiv(a, b) == IF a % b = 0 THEN a \div b ELSE (a \div b) + 1

\* ------------------------------------------------------- slice geometry

\* The manifest loop: slice i of an image of the given height and width.
SliceDescriptor(i, height, width, sliceHeight) ==
    [index  |-> i,
     y      |-> i * sliceHeight,
     height |-> Min(sliceHeight, height - i * sliceHeight),
     width  |-> width]

NumSlices(height, sliceHeight) == CeilDiv(height, sliceHeight)

Slices(height, width, sliceHeight) ==
    [k \in 1..NumSlices(height, sliceHeight) |->
        SliceDescriptor(k - 1, height, width, sliceHeight)]

Manifest(height, width) ==
    [status         |-> 200,
     kind           |-> "manifest",
     originalWidth  |-> width,
     originalHeight |-> height,
     sliceHeight    |-> SLICE_HEIGHT,
     numSlices      |-> NumSlices(height, SLICE_HEIGHT),
     slices         |-> Slices(height, width, SLICE_HEIGHT)]

\* The slice branch: y and sliceHeight for a requested index.
SliceY(index) == JsMul(ParseInt(index), Num(SLICE_HEIGHT))

\* The slice height without the Math.min against the rest of the image.
SliceHFull(index, height) == Num(SLICE_HEIGHT)

SliceH(index, height) ==
    JsMin(Num(SLICE_HEIGHT), JsSub(Num(height), SliceY(index)))

\* The bounds check with > in place of >=.
OutOfBoundsStrict(index, height) ==
    LET y == SliceY(index) IN ~y.nan /\ y.v > height

OutOfBounds(index, height) == JsGe(SliceY(index), Num(height))

ExtractRegion(index, height, width) ==
    [left |-> Num(0), top |-> SliceY(index), width |-> Num(width),
     height |-> SliceH(index, height)]

\* sharp's extract() accepts only integers >= 0 for its four options.
IsNonNegInt(x) == ~x.nan /\ x.v >= 0

ExtractParamsOk(g) ==
    /\ IsNonNegInt(g.left) /\ IsNonNegInt(g.top)
    /\ IsNonNegInt(g.width) /\ IsNonNegInt(g.height)

\* The pipeline rejects an area that is empty or not inside the image.
ExtractAreaOk(b, g) ==
    /\ ExtractParamsOk(g)
    /\ g.width.v > 0 /\ g.height.v > 0
    /\ g.left.v + g.width.v <= ImgWidth(b)
    /\ g.top.v + g.height.v <= ImgHeight(b)

\* ------------------------------------------------------------------ state

VARIABLES
    imageCache,   \* the Map: a function from the cached URLs to their entries
    now,          \* Date.now(), in milliseconds since the server started
    nextSweep,    \* when the cleanup timer fires next
    req,          \* per request: the handler's position and local variables
    delays,       \* how many times the clock has moved on by LATE
    calc          \* the partition specification's input and result

vars == <<imageCache, now, nextSweep, req, delays, calc>>

NoBuffer == "<unset>"

IdleReq ==
    [pc         |-> "idle",
     url        |-> NoUrl,
     index      |-> NoIndex,
     buffer     |-> NoBuffer,
     fetches    |-> 0,         \* calls of fetch(url, ...) made
     codecCalls |-> 0,         \* calls of sharp(buffer) made
     extracts   |-> <<>>,      \* the regions passed to extract()
     warned     |-> FALSE,     \* console.warn of a content-length mismatch
     staleHit   |-> FALSE,     \* the cache hit took an entry older than TTL
     refetch    |-> FALSE,     \* the miss found the key removed by a cleanup
     closed     |-> FALSE,     \* the caller left while the handler runs
     resp       |-> <<>>]      \* the responses sent

NoCalc ==
    [phase |-> "off", height |-> 0, width |-> 0, sliceHeight |-> 0,
     numSlices |-> 0, slices |-> <<>>]

\* new Map()
EmptyMap == [k \in {} |-> k]

Init ==
    /\ imageCache = EmptyMap
    /\ now = 0
    /\ nextSweep = SWEEP_INTERVAL
    /\ req = [r \in Reqs |-> IdleReq]
    /\ delays = 0
    /\ calc = NoCalc

\* imageCache.has(url)
CacheHas(url) == url \in DOMAIN imageCache

\* The store with the time the server started in place of Date.now().
CacheSetStartTime(url, b) ==
    [k \in DOMAIN imageCache \cup {url} |->
        IF k = url THEN [buffer |-> b, timestamp |-> 0] ELSE imageCache[k]]

\* imageCache.set(url, { buffer, timestamp: Date.now() })
CacheSet(url, b) ==
    [k \in DOMAIN imageCache \cup {url} |->
        IF k = url THEN [buffer |-> b, timestamp |-> now] ELSE imageCache[k]]

\* The cleanup's test with >= in place of >.
ExpiredAtTTL(entry) == now - entry.timestamp >= CACHE_TTL

\* The cleanup's test of one entry.
Expired(entry) == now - entry.timestamp > CACHE_TTL

\* The cleanup as imageCache.clear().
SweptAll == EmptyMap

\* The cache after one run of the cleanup callback.
Swept ==
    [k \in {u \in DOMAIN imageCache : ~Expired(imageCache[u])} |->
        imageCache[k]]

\* Some handler has stored a buffer under key k (line 102): a handler that
\* fetched has a buffer from the moment of its store.
Stored(k) ==
    \E q \in DOMAIN req :
        req[q].url = k /\ req[q].fetches > 0 /\ req[q].buffer # NoBuffer

\* Key k had an entry and has none: the cleanup has deleted it (line 39 is
\* the only delete), which it does to entries older than CACHE_TTL only.
RemovedByCleanup(k) == Stored(k) /\ ~CacheHas(k)

\* res.status(code).json({ error: message })
ErrorResp(code, message) == [status |-> code, kind |-> "error", error |-> message]

\* error.message of a pipeline that could not decode the pixel data.
PipelineRejected == "pipeline rejected"

\* res.send(slice): the JPEG of region g of the image in buffer b.
SliceResp(b, g) == [status |-> 200, kind |-> "slice", image |-> b, region |-> g]

\* The handler of request r ends with response a; its connection is no
\* longer tracked.
Finish(r, rec, a) ==
    req' = [req EXCEPT ![r] = [rec EXCEPT !.pc = "done", !.closed = FALSE,
                                         !.resp = Append(rec.resp, a)]]

\* sharp(buffer).metadata() is called and awaited.
CallMetadata(r, rec) ==
    req' = [req EXCEPT ![r] =
              [rec EXCEPT !.pc = "metadata", !.codecCalls = rec.codecCalls + 1]]

\* Lines 94-95: a content-length header is present and differs from the
\* length of the received buffer.
LengthMismatch(b) ==
    ExpectedSize(b) # NoHeader /\ BufLength(b) # ExpectedSize(b)[1]

\* The validation with url === undefined in place of !url.
MissingUrlStrict(u) == u = NoUrl

\* A falsy req.query.url.
MissingUrl(u) == u = NoUrl \/ u = ""

\* Lines 52-87: the request arrives; validation, cache check, and either the
\* cache hit up to the metadata call or the miss up to the fetch call.
Begin(r) ==
    /\ req[r].pc = "idle"
    /\ \A q \in Reqs : q < r => req[q].pc # "idle"
    /\ \E q \in Queries(r) :
         LET u   == q.url
             rec == [req[r] EXCEPT !.url = u, !.index = q.index] IN
         IF MissingUrl(u)
         THEN Finish(r, rec, ErrorResp(400, "Missing url parameter"))
         ELSE IF CacheHas(u)
         THEN CallMetadata(r, [rec EXCEPT !.buffer = imageCache[u].buffer,
                                          !.staleHit =
                                             now - imageCache[u].timestamp
                                                > CACHE_TTL])
         ELSE req' = [req EXCEPT ![r] =
                        [rec EXCEPT !.pc = "fetch", !.fetches = rec.fetches + 1,
                                    !.refetch = RemovedByCleanup(u)]]
    /\ UNCHANGED <<imageCache, now, nextSweep, delays, calc>>

\* fetch() settles in a handler that calls fetch once more after a failure.
FetchReturnRetry(r) ==
    /\ req[r].pc = "fetch"
    /\ \/ /\ req[r].fetches < 2
          /\ req' = [req EXCEPT ![r].fetches = req[r].fetches + 1]
       \/ Finish(r, req[r], ErrorResp(500, "Failed to fetch image"))
       \/ req' = [req EXCEPT ![r].pc = "body"]
    /\ UNCHANGED <<imageCache, now, nextSweep, delays, calc>>

\* Lines 87-91: fetch() settles.  It rejects, or resolves with a response
\* that is not ok, or resolves with an ok response whose body is then read.
FetchReturn(r) ==
    /\ req[r].pc = "fetch"
    /\ \/ Finish(r, req[r], ErrorResp(500, "fetch rejected"))
       \/ Finish(r, req[r], ErrorResp(500, "Failed to fetch image"))
       \/ req' = [req EXCEPT ![r].pc = "body"]
    /\ UNCHANGED <<imageCache, now, nextSweep, delays, calc>>

\* response.buffer() settles in a handler that throws on a content-length
\* mismatch (the check of line 98 enabled).
BodyReturnStrict(r) ==
    /\ req[r].pc = "body"
    /\ \/ /\ Finish(r, req[r], ErrorResp(500, "body rejected"))
          /\ UNCHANGED imageCache
       \/ \E b \in Buffers :
            IF LengthMismatch(b)
            THEN /\ Finish(r, [req[r] EXCEPT !.buffer = b, !.warned = TRUE],
                           ErrorResp(500, "Incomplete download: Size mismatch"))
                 /\ UNCHANGED imageCache
            ELSE /\ imageCache' = CacheSet(req[r].url, b)
                 /\ CallMetadata(r, [req[r] EXCEPT !.buffer = b])
    /\ UNCHANGED <<now, nextSweep, delays, calc>>

\* response.buffer() settles in a handler that decodes the buffer before it
\* stores it, and stores only a decodable one.
BodyReturnDecodeFirst(r) ==
    /\ req[r].pc = "body"
    /\ \/ /\ Finish(r, req[r], ErrorResp(500, "body rejected"))
          /\ UNCHANGED imageCache
       \/ \E b \in Buffers :
            /\ imageCache' = IF Decodable(b) THEN CacheSet(req[r].url, b)
                                             ELSE imageCache
            /\ CallMetadata(r, [req[r] EXCEPT !.buffer = b,
                                              !.warned = LengthMismatch(b)])
    /\ UNCHANGED <<now, nextSweep, delays, calc>>

\* Lines 91-106: response.buffer() settles.  On success the content-length
\* is compared, the buffer is stored and the metadata call is made.
BodyReturn(r) ==
    /\ req[r].pc = "body"
    /\ \/ /\ Finish(r, req[r], ErrorResp(500, "body rejected"))
          /\ UNCHANGED imageCache
       \/ \E b \in Buffers :
            /\ imageCache' = CacheSet(req[r].url, b)
            /\ CallMetadata(r, [req[r] EXCEPT !.buffer = b,
                                              !.warned = LengthMismatch(b)])
    /\ UNCHANGED <<now, nextSweep, delays, calc>>

\* metadata() settles in a handler whose bounds check answers 404 without
\* returning: the extract call that follows throws and the catch block
\* answers again.
MetadataReturnNoReturn(r) ==
    /\ req[r].pc = "metadata"
    /\ LET rec == req[r]
           b   == rec.buffer
           h   == ImgHeight(b)
           w   == ImgWidth(b)
           g   == ExtractRegion(rec.index, h, w)
           ext == [rec EXCEPT !.extracts = Append(rec.extracts, g),
                              !.codecCalls = rec.codecCalls + 1]
           nf  == ErrorResp(404, "Slice index out of bounds")
       IN  IF ~Decodable(b)
           THEN Finish(r, rec, ErrorResp(500, "unsupported image format"))
           ELSE IF rec.index = NoIndex
           THEN Finish(r, rec, Manifest(h, w))
           ELSE IF OutOfBounds(rec.index, h)
           THEN Finish(r, [ext EXCEPT !.resp = Append(rec.resp, nf)],
                       ErrorResp(500, "invalid extract parameter"))
           ELSE IF ~ExtractParamsOk(g)
           THEN Finish(r, ext, ErrorResp(500, "invalid extract parameter"))
           ELSE req' = [req EXCEPT ![r] = [ext EXCEPT !.pc = "extract"]]
    /\ UNCHANGED <<imageCache, now, nextSweep, delays, calc>>

\* Lines 106-125 and 130-167: metadata() settles.  Then the manifest is
\* answered, or the slice's bounds are checked and extract() is called.
MetadataReturn(r) ==
    /\ req[r].pc = "metadata"
    /\ LET rec == req[r]
           b   == rec.buffer
           h   == ImgHeight(b)
           w   == ImgWidth(b)
           g   == ExtractRegion(rec.index, h, w)
           ext == [rec EXCEPT !.extracts = Append(rec.extracts, g),
                              !.codecCalls = rec.codecCalls + 1]
       IN  IF ~Decodable(b)
           THEN Finish(r, rec, ErrorResp(500, "unsupported image format"))
           ELSE IF rec.index = NoIndex
           THEN Finish(r, rec, Manifest(h, w))
           ELSE IF OutOfBounds(rec.index, h)
           THEN Finish(r, rec, ErrorResp(404, "Slice index out of bounds"))
           ELSE IF ~ExtractParamsOk(g)
           THEN Finish(r, ext, ErrorResp(500, "invalid extract parameter"))
           ELSE req' = [req EXCEPT ![r] = [ext EXCEPT !.pc = "extract"]]
    /\ UNCHANGED <<imageCache, now, nextSweep, delays, calc>>

\* Lines 122-129 and 168-171: the extract/jpeg/toBuffer pipeline settles.
\* It rejects an area outside the image; for an area inside it resolves
\* with the JPEG, or rejects because the pixel data of the buffer do not
\* decode (a truncated or corrupt body whose header was readable).  The
\* catch block answers every rejection with 500.
ExtractReturn(r) ==
    /\ req[r].pc = "extract"
    /\ LET rec == req[r]
           g   == rec.extracts[Len(rec.extracts)]
       IN  IF ExtractAreaOk(rec.buffer, g)
           THEN \/ Finish(r, rec, SliceResp(rec.buffer, g))
                \/ Finish(r, rec, ErrorResp(500, PipelineRejected))
           ELSE Finish(r, rec, ErrorResp(500, "bad extract area"))
    /\ UNCHANGED <<imageCache, now, nextSweep, delays, calc>>

\* The caller closes the connection in a handler that aborts its fetch on
\* 'close': the fetch rejects and the catch block answers 500.
DisconnectAborts(r) ==
    /\ r \in {1}
    /\ req[r].pc \in {"fetch", "body"}
    /\ ~req[r].closed
    /\ req' = [req EXCEPT ![r] =
                [req[r] EXCEPT
                    !.pc = "done", !.closed = TRUE,
                    !.resp = <<ErrorResp(500, "The user aborted a request.")>>]]
    /\ UNCHANGED <<imageCache, now, nextSweep, delays, calc>>

\* The callers that may close their connection early.
Impatient == {1}

\* The caller of request r closes the connection while the handler awaits
\* the fetch.  The handler registers no 'close' or 'aborted' listener and
\* passes no abort signal to fetch: nothing of the handler changes.
Disconnect(r) ==
    /\ r \in Impatient
    /\ req[r].pc \in {"fetch", "body"}
    /\ ~req[r].closed
    /\ req' = [req EXCEPT ![r].closed = TRUE]
    /\ UNCHANGED <<imageCache, now, nextSweep, delays, calc>>

\* Lines 35-42: the cleanup callback runs.  It starts at its due time or
\* later, after whatever the event loop ran in between, and the interval
\* timer is due again SWEEP_INTERVAL after the start of this run, so that
\* lateness adds up.
Sweep ==
    /\ now >= nextSweep
    /\ imageCache' = Swept
    /\ nextSweep' = now + SWEEP_INTERVAL
    /\ UNCHANGED <<now, req, delays, calc>>

\* Time passes up to the instant the cleanup timer is due.
Tick ==
    /\ req[1].pc # "idle"
    /\ now < nextSweep
    /\ nextSweep \div SWEEP_INTERVAL <= MaxTicks
    /\ now' = nextSweep
    /\ UNCHANGED <<imageCache, nextSweep, req, delays, calc>>

\* The wall clock moves on by LATE before the code reads it: while the
\* cleanup callback is due and has not started (line 36), so that the
\* handler steps taken before the callback see the later time and the timer
\* is armed again from the late start; or while a body is being read, so
\* that the store of line 102 stamps a time between two firings.
Delay ==
    /\ delays < MaxLate
    /\ now >= nextSweep \/ \E r \in Reqs : req[r].pc = "body"
    /\ now' = now + LATE
    /\ delays' = delays + 1
    /\ UNCHANGED <<imageCache, nextSweep, req, calc>>

Next ==
    \/ \E r \in Reqs : Begin(r)
    \/ \E r \in Reqs : FetchReturn(r)
    \/ \E r \in Reqs : BodyReturn(r)
    \/ \E r \in Reqs : MetadataReturn(r)
    \/ \E r \in Reqs : ExtractReturn(r)
    \/ \E r \in Reqs : Disconnect(r)
    \/ Sweep
    \/ Tick
    \/ Delay

Spec == Init /\ [][Next]_vars

\* The step of request r's handler after the call it awaits has settled.
\* At most one of the four is enabled, by the handler's position.
Settle(r) ==
    \/ FetchReturn(r)
    \/ BodyReturn(r)
    \/ MetadataReturn(r)
    \/ ExtractReturn(r)

\* The external calls settle: while some handler awaits a fetch, a body
\* read or a codec call, one of the awaited calls eventually resolves or
\* rejects and the event loop runs that handler.  This is the least the
\* environment has to grant; it follows from every call settling.
CallsSettle == WF_vars(\E r \in Reqs : Settle(r))

SpecLive == Init /\ [][Next]_vars /\ CallsSettle

\* ------------------------------------------------ partition specification

\* The manifest's slice computation as a function of the image height and
\* the slice height: every small pair, and the heights of the remote images
\* and their neighbours with the configured slice height.
CalcInputs ==
    ((1..MaxImgHeight) \X (1..MaxSliceHeight))
        \cup ({1, 1499, 1500, 1501, 3000, 3200} \X {SLICE_HEIGHT})

PartitionInit ==
    /\ imageCache = EmptyMap
    /\ now = 0
    /\ nextSweep = SWEEP_INTERVAL
    /\ req = [r \in Reqs |-> IdleReq]
    /\ delays = 0
    /\ \E inp \in CalcInputs :
         calc = [NoCalc EXCEPT !.phase = "in", !.height = inp[1], !.width = 800,
                               !.sliceHeight = inp[2]]

\* Lines 132-158 applied to the input.
Partition ==
    /\ calc.phase = "in"
    /\ calc' = [calc EXCEPT
                  !.phase = "out",
                  !.numSlices = NumSlices(calc.height, calc.sliceHeight),
                  !.slices = Slices(calc.height, calc.width, calc.sliceHeight)]
    /\ UNCHANGED <<imageCache, now, nextSweep, req, delays>>

PartitionNext == Partition

SpecPartition == PartitionInit /\ [][PartitionNext]_vars

\* ------------------------------------------------------------------ claims

RECURSIVE SumHeights(_)
SumHeights(sl) ==
    IF sl = <<>> THEN 0 ELSE Head(sl).height + SumHeights(Tail(sl))

\* C5: for every image height H > 0 and slice height S > 0 the manifest's
\* slices partition [0, H) exactly: numSlices = ceil(H/S), slice i has
\* y = i*S and height = min(S, H - i*S) > 0, consecutive slices are
\* contiguous, the heights sum to H; H = 3200, S = 1500 gives the bands
\* (0,1500), (1500,1500), (3000,200).
C5_Partition ==
    calc.phase = "out" =>
        LET H  == calc.height
            S  == calc.sliceHeight
            sl == calc.slices
            n  == calc.numSlices
        IN  /\ n = Len(sl)
            /\ n >= 1
            /\ (n - 1) * S < H /\ H <= n * S
            /\ \A k \in 1..n :
                 /\ sl[k].index = k - 1
                 /\ sl[k].y = (k - 1) * S
                 /\ sl[k].height > 0
                 /\ sl[k].height <= S
                 /\ sl[k].height <= H - (k - 1) * S
                 /\ sl[k].height = S \/ sl[k].height = H - (k - 1) * S
            /\ sl[1].y = 0
            /\ \A k \in 1..(n - 1) : sl[k + 1].y = sl[k].y + sl[k].height
            /\ sl[n].y + sl[n].height = H
            /\ SumHeights(sl) = H
            /\ (H = 3200 /\ S = 1500) =>
                 [k \in 1..n |-> <<sl[k].y, sl[k].height>>]
                    = << <<0, 1500>>, <<1500, 1500>>, <<3000, 200>> >>

C5_Witness ==
    /\ calc.phase = "out"
    /\ calc.height = 3200
    /\ calc.sliceHeight = 1500
    /\ calc.numSlices = 3
    /\ calc.slices[3].height = 200

\* Request r sent a URL: it is past validation.
HasUrl(r) == req[r].url \notin {NoUrl, ""}

\* Request r arrives in this step.
Arrives(r) == req[r].pc = "idle" /\ req'[r].pc # "idle"

\* Request r is between its fetch call and its cache store.
Fetching(r) == req[r].pc \in {"fetch", "body"}

\* The response request r has received.
Answer(r) == req[r].resp[1]

Answered(r) == req[r].pc = "done" /\ Len(req[r].resp) = 1

\* The entry of url k is within its TTL.
WithinTTL(k) ==
    k \in DOMAIN imageCache /\ now - imageCache[k].timestamp <= CACHE_TTL

\* C1: concurrent first-time requests for the same new key result in at
\* most one invocation of the external fetch: no two requests for one key
\* are between their fetch call and their cache store at the same time.
C1_SingleFetchInFlight ==
    \A r1, r2 \in Reqs :
        (r1 # r2 /\ Fetching(r1) /\ Fetching(r2)) => req[r1].url # req[r2].url

\* C2: a request for a key whose entry is older than CACHE_TTL invokes the
\* external fetch again and does not take the stored buffer, also before
\* the cleanup has removed the entry.
C2_StaleOnAccess ==
    [][\A r \in Reqs :
         (/\ Arrives(r)
          /\ req'[r].url \in DOMAIN imageCache
          /\ now - imageCache[req'[r].url].timestamp > CACHE_TTL)
         => (req'[r].pc = "fetch" /\ req'[r].fetches = 1
             /\ req'[r].buffer = NoBuffer)]_vars

\* C3: a request for a key whose entry is within TTL takes the stored buffer
\* and does not invoke the external fetch; and an entry stays in the cache
\* for as long as it is within TTL, so that after a completed request for a
\* key every later request within TTL is such a hit.
C3_HitWithinTTL ==
    [][/\ \A r \in Reqs :
            (Arrives(r) /\ WithinTTL(req'[r].url))
            => (/\ req'[r].fetches = 0
                /\ req'[r].pc = "metadata"
                /\ req'[r].buffer = imageCache[req'[r].url].buffer
                /\ imageCache' = imageCache)
       /\ \A k \in DOMAIN imageCache :
            now' - imageCache[k].timestamp <= CACHE_TTL
            => k \in DOMAIN imageCache']_vars

\* A second request for the key was answered 200 from the entry the first
\* one stored, without a fetch of its own.
C3_Witness ==
    \E r1, r2 \in Reqs :
        /\ r1 # r2
        /\ HasUrl(r1) /\ req[r2].url = req[r1].url
        /\ Answered(r1) /\ req[r1].fetches = 1 /\ Answer(r1).status = 200
        /\ Answered(r2) /\ req[r2].fetches = 0 /\ Answer(r2).status = 200
        /\ WithinTTL(req[r1].url)

\* Width and height of the image in a buffer; none for an undecodable one.
Dimensions(b) == IF Decodable(b) THEN <<ImgWidth(b), ImgHeight(b)>> ELSE <<>>

\* C4: while a cache entry for a key is valid, every request for that key
\* is answered from the same image: the buffer a request is computing its
\* answer from has the dimensions of the key's entry.
C4_SameImageWhileValid ==
    \A r \in Reqs :
        (req[r].pc \in {"metadata", "extract"} /\ WithinTTL(req[r].url))
        => Dimensions(req[r].buffer)
              = Dimensions(imageCache[req[r].url].buffer)

\* A query index written as a non-negative decimal integer.
IsDigitString(s) == s # <<>> /\ \A k \in 1..Len(s) : s[k] \in Digits

\* The value of the one-digit indices the clients send.
IntIndex(s) == CASE s = <<"0">> -> 0 [] s = <<"1">> -> 1 [] s = <<"2">> -> 2

\* Request r asked for a slice by an integer index, and the image was
\* retrieved and decoded.
SliceRequest(r) ==
    /\ Answered(r)
    /\ HasUrl(r)
    /\ req[r].index \in {<<"0">>, <<"1">>, <<"2">>}
    /\ req[r].buffer # NoBuffer
    /\ Decodable(req[r].buffer)

\* C6: a slice request with index * sliceHeight >= originalHeight is
\* answered 404 and no extract call is made for it; for H = S = 1500 index 1
\* is out of range.
C6_OutOfRange ==
    \A r \in Reqs :
        (SliceRequest(r)
         /\ IntIndex(req[r].index) * SLICE_HEIGHT >= ImgHeight(req[r].buffer))
        => (/\ Answer(r).status = 404
            /\ Answer(r).error = "Slice index out of bounds"
            /\ req[r].extracts = <<>>
            /\ req[r].codecCalls = 1)

C6_Witness ==
    \E r \in Reqs :
        /\ SliceRequest(r)
        /\ req[r].index = <<"1">>
        /\ ImgHeight(req[r].buffer) = 1500
        /\ SLICE_HEIGHT = 1500
        /\ Answer(r).status = 404

\* C7: for every index i with 0 <= i < numSlices a slice request makes one
\* extract call, for exactly the region the manifest lists for slice i
\* (top = i*S, height = min(S, H - i*S), full width), and is not answered
\* 404: it is answered 200 with the JPEG of that region, unless the codec
\* rejects the buffer's pixel data; the last index gives a band of height
\* H - (numSlices-1)*S.
C7_SliceMatchesManifest ==
    \A r \in Reqs :
        LET i == IntIndex(req[r].index)
            H == ImgHeight(req[r].buffer)
            W == ImgWidth(req[r].buffer)
            m == Manifest(H, W)
        IN  (SliceRequest(r) /\ i < m.numSlices)
            => (/\ Len(req[r].extracts) = 1
                /\ req[r].extracts[1] =
                     [left   |-> Num(0),
                      top    |-> Num(m.slices[i + 1].y),
                      width  |-> Num(m.slices[i + 1].width),
                      height |-> Num(m.slices[i + 1].height)]
                /\ req[r].extracts[1].top = Num(i * SLICE_HEIGHT)
                /\ req[r].extracts[1].width = Num(W)
                /\ req[r].extracts[1].height =
                     Num(IF SLICE_HEIGHT <= H - i * SLICE_HEIGHT
                         THEN SLICE_HEIGHT ELSE H - i * SLICE_HEIGHT)
                /\ (i = m.numSlices - 1) =>
                     req[r].extracts[1].height =
                        Num(H - (m.numSlices - 1) * SLICE_HEIGHT)
                /\ Answer(r).status # 404
                /\ \/ Answer(r) =
                        [status |-> 200, kind |-> "slice",
                         image |-> req[r].buffer,
                         region |-> req[r].extracts[1]]
                   \/ Answer(r) =
                        [status |-> 500, kind |-> "error",
                         error |-> PipelineRejected])

\* The last slice of the 3200-high image: index 2, a band of height 200.
C7_Witness ==
    \E r \in Reqs :
        /\ SliceRequest(r)
        /\ req[r].index = <<"2">>
        /\ ImgHeight(req[r].buffer) = 3200
        /\ Answer(r).status = 200
        /\ Answer(r).region.top = Num(3000)
        /\ Answer(r).region.height = Num(200)

\* C8: a failed retrieval ends the request with a 500 response after
\* exactly one fetch attempt and leaves the cache unchanged; no request
\* ever invokes the fetch twice.
C8_FetchFailure ==
    [][\A r \in Reqs :
         /\ req'[r].fetches <= 1
         /\ (Fetching(r) /\ req'[r].pc \notin {"fetch", "body"}
             /\ req'[r].buffer = NoBuffer)
            => (/\ req'[r].pc = "done"
                /\ Len(req'[r].resp) = 1
                /\ req'[r].resp[1].status = 500
                /\ req'[r].resp[1].kind = "error"
                /\ req'[r].fetches = 1
                /\ req'[r].codecCalls = 0
                /\ imageCache' = imageCache)]_vars

\* A request whose fetch failed was answered 500 and the key is not cached.
C8_Witness ==
    \E r \in Reqs :
        /\ Answered(r) /\ HasUrl(r)
        /\ req[r].fetches = 1 /\ req[r].buffer = NoBuffer
        /\ Answer(r).status = 500
        /\ req[r].url \notin DOMAIN imageCache

\* C9: a request without a source url is answered 400 before any other
\* work: no fetch, no codec call, the cache unchanged.
C9_MissingUrl ==
    [][\A r \in Reqs :
         (Arrives(r) /\ req'[r].url \in {NoUrl, ""})
         => (/\ req'[r].pc = "done"
             /\ req'[r].resp = <<[status |-> 400, kind |-> "error",
                                  error |-> "Missing url parameter"]>>
             /\ req'[r].fetches = 0
             /\ req'[r].codecCalls = 0
             /\ req'[r].extracts = <<>>
             /\ imageCache' = imageCache)]_vars

\* A request with an empty url parameter was answered 400.
C9_Witness ==
    \E r \in Reqs :
        /\ Answered(r) /\ req[r].url = ""
        /\ Answer(r).status = 400

\* C10: a slice request whose index is not a non-negative integer is
\* answered 400, not 500 and not 200.
C10_MalformedIndex ==
    \A r \in Reqs :
        (/\ Answered(r) /\ HasUrl(r)
         /\ req[r].index # NoIndex
         /\ ~IsDigitString(req[r].index)
         /\ req[r].buffer # NoBuffer /\ Decodable(req[r].buffer))
        => Answer(r).status = 400

\* The cleanup callback runs in this step.
Sweeps == nextSweep' # nextSweep

\* Request r's response.buffer() resolves in this step.
Received(r) == req[r].pc = "body" /\ req'[r].buffer # NoBuffer

\* C11: each cleanup removes exactly the entries with
\* now - timestamp > CACHE_TTL: none of them remains, and every other entry
\* is left in place with its buffer and timestamp unchanged.
C11_SweepExact ==
    [][Sweeps =>
         /\ DOMAIN imageCache' \subseteq DOMAIN imageCache
         /\ \A k \in DOMAIN imageCache :
              IF now - imageCache[k].timestamp > CACHE_TTL
              THEN k \notin DOMAIN imageCache'
              ELSE k \in DOMAIN imageCache' /\ imageCache'[k] = imageCache[k]]_vars

\* The cleanup has removed the entry a request stored: the request has its
\* buffer from its own fetch, and the key is absent right after a cleanup.
C11_Witness ==
    /\ nextSweep > now
    /\ now > CACHE_TTL
    /\ \E r \in Reqs :
         /\ HasUrl(r) /\ req[r].fetches = 1 /\ req[r].buffer # NoBuffer
         /\ req[r].url \notin DOMAIN imageCache

\* C12: after an entry's TTL has elapsed and a cleanup has run since, the
\* next request for the key invokes the external fetch again and stores a
\* new entry whose timestamp is the time at which the fetched body arrived.
\* A cleanup leaves no entry older than TTL, so that the key is absent; a
\* request that arrives for a key whose entry a cleanup has removed calls
\* fetch; and when the body of that fetch has been read, the key's entry is
\* the received buffer with Date.now() of that moment, a time more than
\* CACHE_TTL after the start.
C12_RefetchAfterSweep ==
    [][/\ Sweeps =>
            \A k \in DOMAIN imageCache' :
                now - imageCache'[k].timestamp <= CACHE_TTL
       /\ \A r \in Reqs :
            /\ (Arrives(r) /\ req'[r].url \notin {NoUrl, ""}
                /\ req'[r].url \notin DOMAIN imageCache
                /\ \E q \in Reqs \ {r} :
                      /\ req[q].url = req'[r].url
                      /\ req[q].fetches = 1 /\ req[q].buffer # NoBuffer)
               => (/\ req'[r].pc = "fetch" /\ req'[r].fetches = 1
                   /\ req'[r].refetch)
            /\ (Received(r) /\ req[r].refetch)
               => (/\ req'[r].pc = "metadata"
                   /\ req[r].url \in DOMAIN imageCache'
                   /\ imageCache'[req[r].url] =
                        [buffer |-> req'[r].buffer, timestamp |-> now]
                   /\ now > CACHE_TTL)]_vars

\* The first request stored the key and was answered; the entry expired and
\* a cleanup removed it; the second request arrived after that, found the
\* key absent, fetched again, and the key's entry is the buffer of that
\* second fetch with the later time.
C12_Witness ==
    \E r1, r2 \in Reqs :
        /\ r1 < r2
        /\ HasUrl(r1) /\ req[r2].url = req[r1].url
        /\ req[r1].fetches = 1 /\ Answered(r1) /\ Answer(r1).status = 200
        /\ req[r2].refetch
        /\ req[r2].fetches = 1 /\ req[r2].buffer # NoBuffer
        /\ req[r1].url \in DOMAIN imageCache
        /\ imageCache[req[r1].url].timestamp > CACHE_TTL
        /\ imageCache[req[r1].url].buffer = req[r2].buffer

\* C13: a content-length mismatch does not fail the operation: the request
\* goes on to the metadata call as with matching lengths, the received
\* buffer is stored under the key, and the request is answered from it: no
\* answer reports the mismatch, and a manifest request gets the manifest of
\* the received image.
C13_LengthMismatchTolerated ==
    [][\A r \in Reqs :
         /\ (Received(r)
             /\ ExpectedSize(req'[r].buffer) # NoHeader
             /\ ExpectedSize(req'[r].buffer)[1] # BufLength(req'[r].buffer))
            => (/\ req'[r].pc = "metadata"
                /\ req'[r].resp = <<>>
                /\ req'[r].warned
                /\ imageCache'[req[r].url] =
                     [buffer |-> req'[r].buffer, timestamp |-> now])
         /\ (req'[r].warned /\ req'[r].pc = "done")
            => (/\ req'[r].resp[1] #
                     [status |-> 500, kind |-> "error",
                      error |-> "Incomplete download: Size mismatch"]
                /\ req'[r].index = NoIndex
                     => req'[r].resp[1] =
                          Manifest(ImgHeight(req'[r].buffer),
                                   ImgWidth(req'[r].buffer)))]_vars

\* A body one byte short of its content-length was stored and the manifest
\* of its image was answered.
C13_Witness ==
    \E r \in Reqs :
        /\ Answered(r) /\ req[r].warned
        /\ req[r].buffer = "imgB"
        /\ Answer(r).status = 200
        /\ Answer(r).kind = "manifest"
        /\ req[r].url \in DOMAIN imageCache
        /\ imageCache[req[r].url].buffer = "imgB"

\* C15: a cache entry that is still within TTL is never overwritten: no
\* step changes the entry of a key that is within TTL.
C15_NoOverwriteWithinTTL ==
    [][\A k \in DOMAIN imageCache :
         now - imageCache[k].timestamp <= CACHE_TTL
         => (k \in DOMAIN imageCache' /\ imageCache'[k] = imageCache[k])]_vars

\* C16: every region the slice handler passes to the extractor lies inside
\* the image: top >= 0, height > 0, top + height <= image height, left = 0
\* and width = image width.
C16_RegionInsideImage ==
    \A r \in Reqs :
        \A k \in 1..Len(req[r].extracts) :
            LET g == req[r].extracts[k] IN
            /\ ~g.top.nan /\ ~g.height.nan
            /\ g.top.v >= 0
            /\ g.height.v > 0
            /\ g.top.v + g.height.v <= ImgHeight(req[r].buffer)
            /\ g.left = Num(0)
            /\ g.width = Num(ImgWidth(req[r].buffer))

\* C17: the fetched bytes are stored before they are decoded: an
\* undecodable body is cached, the request that fetched it answers 500 and
\* leaves the entry in place, and a request that arrives while the entry is
\* cached takes it without a fetch and answers 500 as well.
C17_UndecodableCached ==
    [][\A r \in Reqs :
         /\ (Received(r) /\ req'[r].buffer = "junk")
            => (/\ req[r].url \in DOMAIN imageCache'
                /\ imageCache'[req[r].url].buffer = "junk"
                /\ req'[r].pc = "metadata")
         /\ (Arrives(r) /\ req'[r].url \in DOMAIN imageCache
             /\ imageCache[req'[r].url].buffer = "junk")
            => (/\ req'[r].fetches = 0
                /\ req'[r].buffer = "junk"
                /\ req'[r].pc = "metadata")
         /\ (req[r].pc = "metadata" /\ req[r].buffer = "junk"
             /\ req'[r] # req[r])
            => (/\ req'[r].pc = "done"
                /\ Len(req'[r].resp) = 1
                /\ req'[r].resp[1].status = 500
                /\ req'[r].fetches = req[r].fetches
                /\ imageCache' = imageCache)]_vars

\* The first request fetched an undecodable body and was answered 500; the
\* second found it in the cache and was answered 500 without a fetch.
C17_Witness ==
    \E r1, r2 \in Reqs :
        /\ r1 # r2 /\ HasUrl(r1) /\ req[r2].url = req[r1].url
        /\ Answered(r1) /\ req[r1].fetches = 1 /\ req[r1].buffer = "junk"
        /\ Answer(r1).status = 500
        /\ Answered(r2) /\ req[r2].fetches = 0 /\ req[r2].buffer = "junk"
        /\ Answer(r2).status = 500
        /\ req[r1].url \in DOMAIN imageCache

\* C14: when the caller of a request disconnects while its fetch is in
\* flight nothing of the handler changes, and the fetch is still allowed to
\* complete: once the body has arrived the cache holds it under the key and
\* the handler goes on, so a later request within TTL finds the entry.
C14_DisconnectKeepsFetch ==
    [][\A r \in Reqs :
         /\ (~req[r].closed /\ req'[r].closed)
            => (/\ req'[r] = [req[r] EXCEPT !.closed = TRUE]
                /\ imageCache' = imageCache)
         /\ (req[r].closed /\ Received(r))
            => (/\ req'[r].pc = "metadata"
                /\ req[r].url \in DOMAIN imageCache'
                /\ imageCache'[req[r].url] =
                     [buffer |-> req'[r].buffer, timestamp |-> now])]_vars

\* The caller of the first request left during the fetch; its fetch stored
\* the image, and the second request was answered from that entry without
\* a fetch while the entry was within TTL.
C14_Witness ==
    \E r1, r2 \in Reqs :
        /\ r1 # r2 /\ HasUrl(r1) /\ req[r2].url = req[r1].url
        /\ req[r1].closed /\ req[r1].fetches = 1
        /\ req[r1].buffer # NoBuffer
        /\ Answered(r2) /\ req[r2].fetches = 0 /\ ~req[r2].staleHit
        /\ req[r2].buffer = req[r1].buffer
        /\ Answer(r2).status = 200
        /\ WithinTTL(req[r1].url)
        /\ imageCache[req[r1].url].buffer = req[r1].buffer

\* C18: with a cleanup every SWEEP_INTERVAL the age of a buffer served from
\* the cache is bounded: no cache hit takes an entry with
\* now - timestamp > CACHE_TTL + SWEEP_INTERVAL.
C18_ServedAgeBounded ==
    [][\A r \in Reqs :
         (Arrives(r) /\ req'[r].url \in DOMAIN imageCache)
         => now - imageCache[req'[r].url].timestamp
               <= CACHE_TTL + SWEEP_INTERVAL]_vars

\* Every request the handler has finished has exactly one response, with
\* status 400, 404, 200 or 500, and an unfinished one has none.
OneResponse ==
    \A r \in Reqs :
        IF req[r].pc = "done"
        THEN /\ Len(req[r].resp) = 1
             /\ req[r].resp[1].status \in {400, 404, 200, 500}
        ELSE req[r].resp = <<>>

\* C19: every /slice request receives exactly one response, one of 400,
\* 404, 200 and 500, on every path of the handler; and when every external
\* fetch and codec call settles, every request that has arrived is
\* eventually answered, whatever other requests and cleanups interleave: a
\* request never returns to an earlier position, and again and again every
\* request that has arrived has been answered.
C19_AlwaysAnswered ==
    /\ []OneResponse
    /\ [][\A r \in Reqs : /\ req[r].pc = "done" => req'[r].pc = "done"
                          /\ req[r].pc # "idle" => req'[r].pc # "idle"]_vars
    /\ []<>(\A r \in Reqs : req[r].pc \in {"idle", "done"})

\* Both requests have been answered, one of them after a fetch.
C19_Witness ==
    /\ \A r \in Reqs : Answered(r)
    /\ \E r \in Reqs : req[r].fetches = 1 /\ Answer(r).status = 200
    /\ \E r \in Reqs : Answer(r).status = 500

====
